---- MODULE Spec2Model ----
(***************************************************************************)
(* Model of src/ssh2.rs: create_session, write_file, read_file and         *)
(* run_commands over an ssh2 Session.  Each function is one sequential     *)
(* body; the outcomes of the library calls it makes (connect, handshake,   *)
(* scp_send, write_all, ...) are inputs chosen by the environment.  Each   *)
(* function is an operator that returns the result, the library calls it   *)
(* made in order, and its effect on the remote host.                       *)
(***************************************************************************)
EXTENDS Integers, Sequences, FiniteSets, TLC

VARIABLES sess, fs, last, written

vars == <<sess, fs, last, written>>

(***************************************************************************)
(* Bounds of the model.                                                    *)
(***************************************************************************)
\* longest content string, in characters
MaxLen == 2
\* longest command batch
MaxCmds == 2

(***************************************************************************)
(* Strings.  A Rust &str is a sequence of Unicode scalar values; its bytes *)
(* are its UTF-8 encoding.                                                 *)
(***************************************************************************)
\* 'A' (1 byte), U+00E9 (2 bytes), U+20AC (3 bytes)
Chars == {65, 233, 8364}

RECURSIVE SeqsUpTo(_, _)
SeqsUpTo(S, n) ==
    IF n = 0 THEN {<<>>}
    ELSE LET shorter == SeqsUpTo(S, n - 1)
         IN  shorter \cup {Append(s, x) : s \in shorter, x \in S}

Contents == SeqsUpTo(Chars, MaxLen)

Take(s, n) == SubSeq(s, 1, IF n < Len(s) THEN n ELSE Len(s))

Drop(s, n) == SubSeq(s, n + 1, Len(s))

\* UTF-8 encoding of one scalar value
EncodeChar(c) ==
    IF c < 128 THEN <<c>>
    ELSE IF c < 2048 THEN <<192 + (c \div 64), 128 + (c % 64)>>
    ELSE IF c < 65536
         THEN <<224 + (c \div 4096), 128 + ((c \div 64) % 64), 128 + (c % 64)>>
    ELSE <<240 + (c \div 262144), 128 + ((c \div 4096) % 64),
           128 + ((c \div 64) % 64), 128 + (c % 64)>>

\* content.as_bytes()
RECURSIVE as_bytes(_)
as_bytes(content) ==
    IF content = <<>> THEN <<>>
    ELSE EncodeChar(Head(content)) \o as_bytes(Tail(content))

IsCont(b) == b >= 128 /\ b < 192

\* length of the sequence a lead byte announces, 0 for a byte that leads nothing
LeadLen(b) ==
    IF b < 128 THEN 1
    ELSE IF b >= 194 /\ b < 224 THEN 2
    ELSE IF b >= 224 /\ b < 240 THEN 3
    ELSE IF b >= 240 /\ b < 245 THEN 4
    ELSE 0

\* the scalar value of one well-formed sequence of n bytes, -1 when ill-formed
DecodeChar(bs, n) ==
    LET c == IF n = 1 THEN bs[1]
             ELSE IF n = 2 THEN (bs[1] - 192) * 64 + (bs[2] - 128)
             ELSE IF n = 3
                  THEN (bs[1] - 224) * 4096 + (bs[2] - 128) * 64 + (bs[3] - 128)
             ELSE (bs[1] - 240) * 262144 + (bs[2] - 128) * 4096
                  + (bs[3] - 128) * 64 + (bs[4] - 128)
        contOK == \A i \in 2..n : IsCont(bs[i])
        minOK == (n = 1) \/ (n = 2 /\ c >= 128) \/ (n = 3 /\ c >= 2048)
                 \/ (n = 4 /\ c >= 65536)
        scalarOK == ~(c >= 55296 /\ c < 57344) /\ c < 1114112
    IN  IF contOK /\ minOK /\ scalarOK THEN c ELSE -1

Invalid == <<-1>>

\* String::from_utf8 as read_to_string applies it: the text, or Invalid
RECURSIVE from_utf8(_)
from_utf8(bytes) ==
    IF bytes = <<>> THEN <<>>
    ELSE LET n == LeadLen(bytes[1])
         IN  IF n = 0 \/ n > Len(bytes) THEN Invalid
             ELSE LET c == DecodeChar(bytes, n)
                      rest == from_utf8(Drop(bytes, n))
                  IN  IF c = -1 \/ rest = Invalid THEN Invalid
                      ELSE <<c>> \o rest

(***************************************************************************)
(* Results and errors.                                                     *)
(***************************************************************************)
\* the variants of enum Error
ErrorKinds ==
    {"TcpStreamConnect", "SessionNew", "SessionHandshake", "SessionUserAuth",
     "CreateRemoteFile", "WriteRemoteFile", "ExecCommands"}

\* e.to_string() of the library error raised at a call site
ErrText(site) == <<"error-text", site>>

Ok(v) == [tag |-> "Ok", val |-> v, kind |-> "", ctx |-> <<>>]

Err(k, c) == [tag |-> "Err", val |-> <<>>, kind |-> k, ctx |-> c]

Panic == [tag |-> "Panic", val |-> <<>>, kind |-> "", ctx |-> <<>>]

NoResult == [tag |-> "None", val |-> <<>>, kind |-> "", ctx |-> <<>>]

Call(f, a) == [fn |-> f, arg |-> a]

Names(calls) == [i \in DOMAIN calls |-> calls[i].fn]

(***************************************************************************)
(* create_session                                                          *)
(***************************************************************************)
Ips == {"127.0.0.1"}

Ports == {22}

Users == {"user"}

\* private-key files: one the server accepts, one malformed or unknown to it
Keys == {"id_rsa", "bad_key"}

KeyAccepted(privatekey) == privatekey = "id_rsa"

\* outcomes of userauth_pubkey_file: Ok with the session authenticated, Err,
\* or Ok with the session still reporting itself unauthenticated (the case
\* the assert! guards)
AuthOutcomes == {"ok", "err", "ok_unauthenticated"}

SessionEnvs ==
    [connect : BOOLEAN, new : BOOLEAN, handshake : BOOLEAN, userauth : AuthOutcomes]

NoSess == [live |-> FALSE, authenticated |-> FALSE]

\* a plausible slip: the assert! dropped, the session returned as it is
checked_session_noassert(s, calls) ==
    [res |-> Ok(<<>>), calls |-> calls, sess |-> s]

\* assert!(sess.authenticated()); Ok(sess)
checked_session(s, calls) ==
    LET c == Append(calls, Call("authenticated", <<>>))
    IN  IF s.authenticated
        THEN [res |-> Ok(<<>>), calls |-> c, sess |-> s]
        ELSE [res |-> Panic, calls |-> c, sess |-> NoSess]

\* a plausible slip: a failed authentication is tried a second time
create_session_retry(ip, port, username, privatekey, env) ==
    LET c1 == <<Call("TcpStream::connect", <<ip, port>>)>>
        c2 == Append(c1, Call("Session::new", <<>>))
        c3 == c2 \o <<Call("set_tcp_stream", <<>>), Call("handshake", <<>>)>>
        c4 == Append(c3, Call("userauth_pubkey_file", <<username, privatekey>>))
        c5 == Append(c4, Call("userauth_pubkey_file", <<username, privatekey>>))
        s  == [live |-> TRUE, authenticated |-> env.userauth = "ok"]
    IN  IF ~env.connect
        THEN [res |-> Err("TcpStreamConnect", <<ip, port, ErrText("connect")>>),
              calls |-> c1, sess |-> NoSess]
        ELSE IF ~env.new
        THEN [res |-> Err("SessionNew", <<ErrText("new")>>),
              calls |-> c2, sess |-> NoSess]
        ELSE IF ~env.handshake
        THEN [res |-> Err("SessionHandshake", <<ErrText("handshake")>>),
              calls |-> c3, sess |-> NoSess]
        ELSE IF env.userauth = "err"
        THEN [res |-> Err("SessionUserAuth",
                          <<username, privatekey, ErrText("userauth")>>),
              calls |-> c5, sess |-> NoSess]
        ELSE checked_session(s, c4)

\* pub fn create_session(ip, port, username, privatekey)
create_session(ip, port, username, privatekey, env) ==
    LET c1 == <<Call("TcpStream::connect", <<ip, port>>)>>
        c2 == Append(c1, Call("Session::new", <<>>))
        c3 == c2 \o <<Call("set_tcp_stream", <<>>), Call("handshake", <<>>)>>
        c4 == Append(c3, Call("userauth_pubkey_file", <<username, privatekey>>))
        s  == [live |-> TRUE, authenticated |-> env.userauth = "ok"]
    IN  IF ~env.connect
        THEN [res |-> Err("TcpStreamConnect", <<ip, port, ErrText("connect")>>),
              calls |-> c1, sess |-> NoSess]
        ELSE IF ~env.new
        THEN [res |-> Err("SessionNew", <<ErrText("new")>>),
              calls |-> c2, sess |-> NoSess]
        ELSE IF ~env.handshake
        THEN [res |-> Err("SessionHandshake", <<ErrText("handshake")>>),
              calls |-> c3, sess |-> NoSess]
        ELSE IF env.userauth = "err"
        THEN [res |-> Err("SessionUserAuth",
                          <<username, privatekey, ErrText("userauth")>>),
              calls |-> c4, sess |-> NoSess]
        ELSE checked_session(s, c4)

(***************************************************************************)
(* The remote host's files.                                                *)
(***************************************************************************)
\* the second path lies under a directory the remote host does not have
Paths == {"remote_file.txt", "no_such_dir/remote_file.txt"}

DirExists(path) == path = "remote_file.txt"

Absent == <<-2>>

(***************************************************************************)
(* write_file                                                              *)
(***************************************************************************)
\* 0o644
FileMode == 420

\* a plausible slip: the size declared as the number of characters
declared_size_chars(content) == Len(content)

\* content.len() as u64
declared_size(content) == Len(as_bytes(content))

\* a plausible slip: write in place of write_all, one call taking one byte
write_once(buf, env) ==
    IF Len(buf) > 0 /\ env.failAt = 2
    THEN [ok |-> FALSE, sent |-> Take(buf, env.delivered)]
    ELSE [ok |-> TRUE, sent |-> Take(buf, 1)]

\* channel.write_all(buf): every byte is sent, or the call fails after the
\* environment has taken some of them; an empty buffer makes no write
write_all(buf, env) ==
    IF Len(buf) > 0 /\ env.failAt = 2
    THEN [ok |-> FALSE, sent |-> Take(buf, env.delivered)]
    ELSE [ok |-> TRUE, sent |-> buf]

\* a plausible slip: the result of wait_eof discarded
finish_put_unchecked(calls, file, env) ==
    LET c3 == Append(calls, Call("send_eof", <<>>))
        c4 == Append(c3, Call("wait_eof", <<>>))
        c5 == Append(c4, Call("close", <<>>))
        c6 == Append(c5, Call("wait_close", <<>>))
    IN  IF env.failAt = 3
        THEN [res |-> Err("ssh2::Error", <<ErrText("send_eof")>>),
              calls |-> c3, file |-> file]
        ELSE IF env.failAt = 5
        THEN [res |-> Err("ssh2::Error", <<ErrText("close")>>),
              calls |-> c5, file |-> file]
        ELSE IF env.failAt = 6
        THEN [res |-> Err("ssh2::Error", <<ErrText("wait_close")>>),
              calls |-> c6, file |-> file]
        ELSE [res |-> Ok(<<>>), calls |-> c6, file |-> file]

\* channel.send_eof()?; channel.wait_eof()?; channel.close()?;
\* channel.wait_close()?; Ok(())
finish_put(calls, file, env) ==
    LET c3 == Append(calls, Call("send_eof", <<>>))
        c4 == Append(c3, Call("wait_eof", <<>>))
        c5 == Append(c4, Call("close", <<>>))
        c6 == Append(c5, Call("wait_close", <<>>))
    IN  IF env.failAt = 3
        THEN [res |-> Err("ssh2::Error", <<ErrText("send_eof")>>),
              calls |-> c3, file |-> file]
        ELSE IF env.failAt = 4
        THEN [res |-> Err("ssh2::Error", <<ErrText("wait_eof")>>),
              calls |-> c4, file |-> file]
        ELSE IF env.failAt = 5
        THEN [res |-> Err("ssh2::Error", <<ErrText("close")>>),
              calls |-> c5, file |-> file]
        ELSE IF env.failAt = 6
        THEN [res |-> Err("ssh2::Error", <<ErrText("wait_close")>>),
              calls |-> c6, file |-> file]
        ELSE [res |-> Ok(<<>>), calls |-> c6, file |-> file]

\* sess.scp_send(remote_file, mode, size, None): fails when the environment
\* says so and when the directory of the path does not exist
scp_send_ok(remote_file, env) == DirExists(remote_file) /\ env.failAt # 1

\* a plausible slip: the two error kinds of write_file exchanged
write_file_swapped(file, content, remote_file, env) ==
    LET size == declared_size(content)
        c1 == <<Call("scp_send", <<remote_file, FileMode, size>>)>>
        c2 == Append(c1, Call("write_all", as_bytes(content)))
        w  == write_all(as_bytes(content), env)
    IN  IF ~scp_send_ok(remote_file, env)
        THEN [res |-> Err("WriteRemoteFile", <<remote_file, ErrText("scp_send")>>),
              calls |-> c1, file |-> file]
        ELSE IF ~w.ok
        THEN [res |-> Err("CreateRemoteFile", <<remote_file, ErrText("write_all")>>),
              calls |-> c2, file |-> Take(w.sent, size)]
        ELSE finish_put(c2, Take(w.sent, size), env)

\* pub fn write_file(sess, content, remote_file); file is what remote_file
\* holds before the call, the file field of the value what it holds after:
\* the remote end keeps the first `size` bytes it is sent
write_file(file, content, remote_file, env) ==
    LET size == declared_size(content)
        c1 == <<Call("scp_send", <<remote_file, FileMode, size>>)>>
        c2 == Append(c1, Call("write_all", as_bytes(content)))
        w  == write_all(as_bytes(content), env)
    IN  IF ~scp_send_ok(remote_file, env)
        THEN [res |-> Err("CreateRemoteFile", <<remote_file, ErrText("scp_send")>>),
              calls |-> c1, file |-> file]
        ELSE IF ~w.ok
        THEN [res |-> Err("WriteRemoteFile", <<remote_file, ErrText("write_all")>>),
              calls |-> c2, file |-> Take(w.sent, size)]
        ELSE finish_put(c2, Take(w.sent, size), env)

(***************************************************************************)
(* read_file                                                               *)
(***************************************************************************)
\* the longest prefix of the bytes that is well-formed UTF-8, decoded
RECURSIVE from_utf8_prefix(_)
from_utf8_prefix(bytes) ==
    IF bytes = <<>> THEN <<>>
    ELSE LET n == LeadLen(bytes[1])
         IN  IF n = 0 \/ n > Len(bytes) THEN <<>>
             ELSE IF DecodeChar(bytes, n) = -1 THEN <<>>
             ELSE <<DecodeChar(bytes, n)>> \o from_utf8_prefix(Drop(bytes, n))

\* a plausible slip: a lossy read that keeps what decodes and reports success
read_to_string_lossy(stream, ioFails) ==
    IF ioFails
    THEN [ok |-> FALSE, text |-> <<>>, err |-> ErrText("read")]
    ELSE [ok |-> TRUE, text |-> from_utf8_prefix(stream), err |-> <<>>]

\* channel.read_to_string(&mut data): reads the stream to its end, then
\* decodes all of it; an I/O failure or ill-formed UTF-8 is an Err
read_to_string(stream, ioFails) ==
    IF ioFails
    THEN [ok |-> FALSE, text |-> <<>>, err |-> ErrText("read")]
    ELSE IF from_utf8(stream) = Invalid
    THEN [ok |-> FALSE, text |-> <<>>, err |-> ErrText("invalid utf-8")]
    ELSE [ok |-> TRUE, text |-> from_utf8(stream), err |-> <<>>]

\* sess.scp_recv(remote_file): fails when the environment says so and when
\* the remote host has no such file
scp_recv_ok(file, env) == file # Absent /\ env.failAt # 1

\* pub fn read_file(sess, remote_file); file is what remote_file holds
read_file(file, remote_file, env) ==
    LET c1 == <<Call("scp_recv", <<remote_file>>)>>
        c2 == Append(c1, Call("read_to_string", <<>>))
        r  == read_to_string(file, env.failAt = 2)
    IN  IF ~scp_recv_ok(file, env)
        THEN [res |-> Err("CreateRemoteFile", <<remote_file, ErrText("scp_recv")>>),
              calls |-> c1]
        ELSE IF ~r.ok
        THEN [res |-> Err("io::Error", <<r.err>>), calls |-> c2]
        ELSE [res |-> Ok(r.text), calls |-> c2]

(***************************************************************************)
(* The remote shell.  A command line is a list of commands separated by    *)
(* ';', run one after the other whatever their exit statuses.  The         *)
(* commands of the model: 'a' and 'b' print their own letter on standard   *)
(* output and exit 0; 'x' prints 'E' on standard error and exits 1.        *)
(***************************************************************************)
Semicolon == 59

\* 'a' and 'b'
EchoCmds == {97, 98}

\* 'x'
FailCmds == {120}

Cmds == {<<>>} \cup {<<c>> : c \in EchoCmds \cup FailCmds}

Batches == SeqsUpTo(Cmds, MaxCmds)

\* what one command writes: a sequence of [stream, byte], stream 0 standard
\* output and stream 1 standard error
RECURSIVE CmdItems(_)
CmdItems(cmd) ==
    IF cmd = <<>> THEN <<>>
    ELSE LET c == Head(cmd)
             it == IF c \in EchoCmds THEN <<[stream |-> 0, byte |-> c]>>
                   ELSE IF c \in FailCmds THEN <<[stream |-> 1, byte |-> 69]>>
                   ELSE <<>>
         IN  it \o CmdItems(Tail(cmd))

Has(s, c) == \E i \in DOMAIN s : s[i] = c

CmdStatus(cmd) == IF \E c \in FailCmds : Has(cmd, c) THEN 1 ELSE 0

\* the shell run on a command line: what it writes and the exit status of
\* the last command of the list (status, when the list has no command)
RECURSIVE Shell(_, _)
Shell(line, status) ==
    IF ~Has(line, Semicolon)
    THEN [items |-> CmdItems(line),
          status |-> IF line = <<>> THEN status ELSE CmdStatus(line)]
    ELSE LET i == CHOOSE k \in DOMAIN line :
                      line[k] = Semicolon /\ \A m \in 1..(k - 1) : line[m] # Semicolon
             first == Take(line, i - 1)
             rest == Shell(Drop(line, i),
                           IF first = <<>> THEN status ELSE CmdStatus(first))
         IN  [items |-> CmdItems(first) \o rest.items, status |-> rest.status]

\* the bytes of one stream of a channel, in the order they were written
RECURSIVE StreamBytes(_, _)
StreamBytes(items, id) ==
    IF items = <<>> THEN <<>>
    ELSE (IF Head(items).stream = id THEN <<Head(items).byte>> ELSE <<>>)
         \o StreamBytes(Tail(items), id)

\* the bytes of all the streams of a channel, in the order they were written
AllBytes(items) == [i \in DOMAIN items |-> items[i].byte]

(***************************************************************************)
(* run_commands                                                            *)
(***************************************************************************)
\* a plausible slip: the batch joined last command first
RECURSIVE join_reversed(_, _)
join_reversed(commands, sep) ==
    IF commands = <<>> THEN <<>>
    ELSE IF Len(commands) = 1 THEN commands[1]
    ELSE join_reversed(Tail(commands), sep) \o <<sep>> \o commands[1]

\* commands.join(sep)
RECURSIVE join(_, _)
join(commands, sep) ==
    IF commands = <<>> THEN <<>>
    ELSE IF Len(commands) = 1 THEN commands[1]
    ELSE commands[1] \o <<sep>> \o join(Tail(commands), sep)

\* what impl Read for Channel reads: stream 0 of the channel; run_commands
\* neither merges the extended-data stream into it nor reads stderr()
channel_read(items) == StreamBytes(items, 0)

\* pub fn run_commands(sess, commands); the status field of the value is
\* the exit status the remote shell ended with (-1: nothing was run), which
\* the function never asks for
run_commands(commands, env) ==
    LET c1 == <<Call("channel_session", <<>>)>>
        joined_comand == join(commands, Semicolon)
        c2 == Append(c1, Call("exec", joined_comand))
        sh == Shell(joined_comand, 0)
        c3 == Append(c2, Call("read_to_string", <<>>))
        r  == read_to_string(channel_read(sh.items), env.failAt = 3)
        c4 == Append(c3, Call("wait_close", <<>>))
    IN  IF env.failAt = 1
        THEN [res |-> Err("ssh2::Error", <<ErrText("channel_session")>>),
              calls |-> c1, status |-> -1]
        ELSE IF env.failAt = 2
        THEN [res |-> Err("ExecCommands", <<joined_comand, ErrText("exec")>>),
              calls |-> c2, status |-> -1]
        ELSE IF ~r.ok
        THEN [res |-> Err("io::Error", <<r.err>>),
              calls |-> c3, status |-> sh.status]
        ELSE IF env.failAt = 4
        THEN [res |-> Err("ssh2::Error", <<ErrText("wait_close")>>),
              calls |-> c4, status |-> sh.status]
        ELSE [res |-> Ok(r.text), calls |-> c4, status |-> sh.status]

(***************************************************************************)
(* The caller: it obtains a Session from create_session and then calls     *)
(* write_file, read_file and run_commands on it, one call at a time.       *)
(* last is the call that has just returned, with its inputs, the outcomes  *)
(* the environment gave its library calls, its result and the library      *)
(* calls it made; written is the content of the last write_file to a path, *)
(* when that call succeeded.                                               *)
(***************************************************************************)
Unknown == <<-3>>

NoEnv ==
    [connect |-> TRUE, new |-> TRUE, handshake |-> TRUE, userauth |-> "ok",
     failAt |-> 0, delivered |-> 0]

NoCall ==
    [op |-> "none", content |-> <<>>, path |-> "", commands |-> <<>>,
     key |-> "", env |-> NoEnv, before |-> Absent, status |-> -1,
     res |-> NoResult, calls |-> <<>>]

Init ==
    /\ sess = NoSess
    /\ fs = [p \in Paths |-> Absent]
    /\ last = NoCall
    /\ written = [p \in Paths |-> Unknown]

CreateSession ==
    /\ last.op = "none"
    /\ \E ip \in Ips, port \in Ports, username \in Users, privatekey \in Keys,
       e \in SessionEnvs :
        \* a key the server does not accept never authenticates
        /\ ~KeyAccepted(privatekey) => e.userauth = "err"
        /\ LET env == [NoEnv EXCEPT !.connect = e.connect, !.new = e.new,
                                    !.handshake = e.handshake,
                                    !.userauth = e.userauth]
               r == create_session(ip, port, username, privatekey, env)
           IN  /\ sess' = IF r.res.tag = "Ok" THEN r.sess ELSE sess
               /\ last' = [NoCall EXCEPT !.op = "create_session",
                                          !.key = privatekey, !.env = env,
                                          !.res = r.res, !.calls = r.calls]
    /\ UNCHANGED <<fs, written>>

\* the outcomes the environment can give a write_file call: under a missing
\* directory it is the open that fails, and a failed write_all has sent less
\* than the whole buffer
WriteEnvs(content, remote_file) ==
    IF ~DirExists(remote_file) THEN {[NoEnv EXCEPT !.failAt = 1]}
    ELSE {[NoEnv EXCEPT !.failAt = f] : f \in {0, 1, 3, 4, 5, 6}}
         \cup {[NoEnv EXCEPT !.failAt = 2, !.delivered = d] :
                  d \in 0..(Len(as_bytes(content)) - 1)}

WriteFile ==
    /\ last.op = "none"
    /\ sess.live
    /\ \E content \in Contents, remote_file \in Paths :
        \E env \in WriteEnvs(content, remote_file) :
           LET r == write_file(fs[remote_file], content, remote_file, env)
           IN  /\ fs' = [fs EXCEPT ![remote_file] = r.file]
               /\ last' = [NoCall EXCEPT !.op = "write_file", !.content = content,
                                          !.path = remote_file, !.env = env,
                                          !.before = fs[remote_file],
                                          !.res = r.res, !.calls = r.calls]
               /\ written' =
                    [written EXCEPT ![remote_file] =
                        IF r.res.tag = "Ok" THEN content
                        ELSE IF Len(r.calls) > 1 THEN Unknown
                        ELSE written[remote_file]]
    /\ UNCHANGED sess

ReadFile ==
    /\ last.op = "none"
    /\ sess.live
    /\ \E remote_file \in Paths, failAt \in 0..2 :
           LET env == [NoEnv EXCEPT !.failAt = failAt]
               r == read_file(fs[remote_file], remote_file, env)
           IN  last' = [NoCall EXCEPT !.op = "read_file", !.path = remote_file,
                                       !.env = env, !.before = fs[remote_file],
                                       !.res = r.res, !.calls = r.calls]
    /\ UNCHANGED <<sess, fs, written>>

RunCommands ==
    /\ last.op = "none"
    /\ sess.live
    /\ \E commands \in Batches, failAt \in 0..4 :
           LET env == [NoEnv EXCEPT !.failAt = failAt]
               r == run_commands(commands, env)
           IN  last' = [NoCall EXCEPT !.op = "run_commands",
                                       !.commands = commands, !.env = env,
                                       !.status = r.status,
                                       !.res = r.res, !.calls = r.calls]
    /\ UNCHANGED <<sess, fs, written>>

\* the caller takes the result and goes on to its next call
Proceed ==
    /\ last.op # "none"
    /\ last' = NoCall
    /\ UNCHANGED <<sess, fs, written>>

Next == CreateSession \/ WriteFile \/ ReadFile \/ RunCommands \/ Proceed

Spec == Init /\ [][Next]_vars

(***************************************************************************)
(* Properties.                                                             *)
(***************************************************************************)
IsPrefix(s, t) == Len(s) <= Len(t) /\ s = Take(t, Len(s))

Count(s, x) == Cardinality({i \in DOMAIN s : s[i] = x})

\* the library calls of create_session in the order of its stages
SessionOrder ==
    <<"TcpStream::connect", "Session::new", "set_tcp_stream", "handshake",
      "userauth_pubkey_file", "authenticated">>

Stages == 1..4

StageFails(env, i) ==
    IF i = 1 THEN ~env.connect
    ELSE IF i = 2 THEN ~env.new
    ELSE IF i = 3 THEN ~env.handshake
    ELSE env.userauth = "err"

StageKind(i) ==
    IF i = 1 THEN "TcpStreamConnect"
    ELSE IF i = 2 THEN "SessionNew"
    ELSE IF i = 3 THEN "SessionHandshake"
    ELSE "SessionUserAuth"

\* the number of library calls made when stage i has been attempted
StageCalls(i) == IF i <= 2 THEN i ELSE i + 1

FirstToFail(env, i) == StageFails(env, i) /\ \A j \in 1..(i - 1) : ~StageFails(env, j)

\* C1: create_session attempts its stages in the order connect, session
\* construction, handshake, public-key-file authentication, each at most
\* once; whatever the outcomes of the stages, the first stage to fail decides
\* the result, which is that stage's own error kind, and no later stage is
\* attempted.
C1_FirstFailingStageDecides ==
    last.op = "create_session" =>
        /\ IsPrefix(Names(last.calls), SessionOrder)
        /\ \A i \in Stages :
              FirstToFail(last.env, i) =>
                  /\ last.res.tag = "Err"
                  /\ last.res.kind = StageKind(i)
                  /\ Len(last.calls) = StageCalls(i)
        /\ (\A i \in Stages : ~StageFails(last.env, i)) =>
              /\ last.res.tag \in {"Ok", "Panic"}
              /\ Names(last.calls) = SessionOrder

\* the handshake and the authentication would both fail: the handshake decides
C1_Witness ==
    /\ last.op = "create_session"
    /\ last.env.connect /\ last.env.new
    /\ ~last.env.handshake /\ last.env.userauth = "err"
    /\ last.res.kind = "SessionHandshake"

\* C2: with a private key the server does not accept create_session returns
\* no Session, and once the earlier stages have passed its result is the
\* authentication-failure kind; every Session create_session returns reports
\* itself authenticated, so every transfer or execution call made on a
\* Session obtained from it is made on an authenticated one.
C2_ReturnedSessionAuthenticated ==
    /\ (last.op = "create_session" /\ last.res.tag = "Ok") =>
          sess.live /\ sess.authenticated
    /\ (last.op = "create_session" /\ ~KeyAccepted(last.key)) =>
          /\ last.res.tag = "Err"
          /\ (last.env.connect /\ last.env.new /\ last.env.handshake) =>
                last.res.kind = "SessionUserAuth"
    /\ last.op \in {"write_file", "read_file", "run_commands"} =>
          sess.authenticated
    /\ sess.live => sess.authenticated

C2_Witness ==
    /\ last.op = "create_session"
    /\ last.key = "bad_key"
    /\ last.res.tag = "Err"
    /\ last.res.kind = "SessionUserAuth"

\* the library calls of write_file in the order of its steps
PutOrder == <<"scp_send", "write_all", "send_eof", "wait_eof", "close", "wait_close">>

\* C3: write_file makes its calls in the order open, write, signal
\* end-of-data, await the acknowledgment, close, await closure; it returns
\* success only when all six were made and none failed, and a step that
\* fails makes it return an error with none of the later steps made.
C3_PutStepsInOrder ==
    last.op = "write_file" =>
        /\ IsPrefix(Names(last.calls), PutOrder)
        /\ last.res.tag \in {"Ok", "Err"}
        /\ last.res.tag = "Ok" =>
              Names(last.calls) = PutOrder /\ last.env.failAt = 0
        /\ last.env.failAt # 0 =>
              last.res.tag = "Err" /\ Len(last.calls) = last.env.failAt

\* awaiting the acknowledgment fails: error, no close and no wait_close
C3_Witness ==
    /\ last.op = "write_file"
    /\ last.env.failAt = 4
    /\ last.res.tag = "Err"
    /\ Names(last.calls) = <<"scp_send", "write_all", "send_eof", "wait_eof">>

\* C4: a read_file of a path that succeeds, after a write_file of content C
\* to that path that succeeded and with no write to the path since, returns
\* exactly C.
C4_RoundTrip ==
    (last.op = "read_file" /\ last.res.tag = "Ok" /\ written[last.path] # Unknown) =>
        last.res.val = written[last.path]

\* multi-byte content read back
C4_Witness ==
    /\ last.op = "read_file"
    /\ last.res.tag = "Ok"
    /\ written[last.path] = <<8364, 65>>
    /\ last.res.val = <<8364, 65>>

\* where command i starts in the joined string, less one
RECURSIVE Offset(_, _)
Offset(commands, i) ==
    IF i = 1 THEN 0 ELSE Offset(commands, i - 1) + Len(commands[i - 1]) + 1

\* j is the commands in their order with one ';' between neighbours
JoinedInOrder(j, commands) ==
    /\ Len(j) = IF commands = <<>> THEN 0
                ELSE Offset(commands, Len(commands)) + Len(commands[Len(commands)])
    /\ \A i \in DOMAIN commands :
          /\ SubSeq(j, Offset(commands, i) + 1,
                    Offset(commands, i) + Len(commands[i])) = commands[i]
          /\ i > 1 => j[Offset(commands, i)] = 59

\* what a command prints on standard output when the shell runs it alone
OwnOutput(cmd) == from_utf8(StreamBytes(Shell(cmd, 0).items, 0))

RECURSIVE OutputsInOrder(_)
OutputsInOrder(commands) ==
    IF commands = <<>> THEN <<>>
    ELSE OwnOutput(Head(commands)) \o OutputsInOrder(Tail(commands))

C6_EveryErrorWrapped ==
    last.res.tag = "Err" => last.res.kind \in ErrorKinds

\* C7: when the put channel does not open, write_file returns the
\* remote-file-creation kind with the path, makes no write and leaves the
\* remote file as it was; when the write fails it returns the
\* remote-file-write kind with the path.
C7_CreateAndWriteErrors ==
    last.op = "write_file" =>
        /\ last.env.failAt = 1 =>
              /\ last.res.tag = "Err"
              /\ last.res.kind = "CreateRemoteFile"
              /\ last.res.ctx[1] = last.path
              /\ Count(Names(last.calls), "write_all") = 0
              /\ fs[last.path] = last.before
        /\ last.env.failAt = 2 =>
              /\ last.res.tag = "Err"
              /\ last.res.kind = "WriteRemoteFile"
              /\ last.res.ctx[1] = last.path

\* a path under a directory the remote host does not have
C7_Witness ==
    /\ last.op = "write_file"
    /\ last.path = "no_such_dir/remote_file.txt"
    /\ last.res.kind = "CreateRemoteFile"
    /\ last.res.ctx[1] = "no_such_dir/remote_file.txt"
    /\ Names(last.calls) = <<"scp_send">>

\* C8: whenever the channel opens, the joined command is executed, the
\* output is read to its end and the closure is awaited, run_commands returns
\* success with the text of standard output and standard error combined,
\* whatever the exit status.
C8_CombinedOutputWhateverStatus ==
    (last.op = "run_commands" /\ last.env.failAt = 0) =>
        /\ last.res.tag = "Ok"
        /\ last.res.val =
              from_utf8(AllBytes(Shell(last.calls[2].arg, 0).items))

\* C9: read_file returns an error with the path when the get channel does
\* not open, an error when the content is not well-formed UTF-8, and on
\* success the text of the whole remote content, never of a part of it.
C9_WholeContentOrError ==
    last.op = "read_file" =>
        /\ (last.env.failAt = 1 \/ last.before = Absent) =>
              /\ last.res.tag = "Err"
              /\ last.res.ctx[1] = last.path
              /\ Names(last.calls) = <<"scp_recv">>
        /\ (last.before # Absent /\ from_utf8(last.before) = Invalid) =>
              last.res.tag = "Err"
        /\ last.res.tag = "Ok" => as_bytes(last.res.val) = last.before

\* the remote content is 'A' followed by the first byte of a longer sequence
C9_Witness ==
    /\ last.op = "read_file"
    /\ last.before = <<65, 226>>
    /\ last.env.failAt = 0
    /\ last.res.tag = "Err"

\* rw-r--r--
ModeBits == 6 * 64 + 4 * 8 + 4

Utf8Width(c) == IF c < 128 THEN 1 ELSE IF c < 2048 THEN 2 ELSE IF c < 65536 THEN 3 ELSE 4

RECURSIVE Utf8Len(_)
Utf8Len(content) ==
    IF content = <<>> THEN 0 ELSE Utf8Width(Head(content)) + Utf8Len(Tail(content))

\* C10: write_file opens the put channel with mode 0644 whatever its inputs
\* and with a declared size that is the UTF-8 byte length of the content,
\* which is the number of bytes it then hands to the write.
C10_ModeAndDeclaredSize ==
    last.op = "write_file" =>
        /\ last.calls[1].fn = "scp_send"
        /\ last.calls[1].arg[2] = ModeBits
        /\ last.calls[1].arg[3] = Utf8Len(last.content)
        /\ Len(last.calls) >= 2 =>
              /\ last.calls[2].fn = "write_all"
              /\ Len(last.calls[2].arg) = last.calls[1].arg[3]

\* two characters, four bytes
C10_Witness ==
    /\ last.op = "write_file"
    /\ last.content = <<8364, 65>>
    /\ last.res.tag = "Ok"
    /\ last.calls[1].arg[3] = 4
    /\ Len(last.calls[2].arg) = 4

====
